---------------------------- MODULE Spec2Model ----------------------------
(***************************************************************************)
(* Banglish -> Bengali transliteration engine                              *)
(* (src/src/utils/banglishConverter.ts).                                   *)
(*                                                                         *)
(* A JavaScript string is modelled as a sequence of UTF-16 code units.     *)
(* An ASCII code unit is the one-character string itself ("k"); a Bengali  *)
(* code unit is named by its code point ("u0995").  The conversion tables  *)
(* are functions from key strings to value strings.                        *)
(*                                                                         *)
(* The gemini-chat edge function (src/unnamed/part_000) is modelled as a   *)
(* second state machine over its own variables: one request, the           *)
(* environment's keys, and the replies of the two providers.               *)
(*                                                                         *)
(* The editor page (src/src/pages/Index.tsx) and the token-based editor    *)
(* (src/unnamed/part_001) are two more state machines over the editor's    *)
(* state: event handlers and the continuations of their awaits.            *)
(***************************************************************************)
EXTENDS Integers, Sequences, FiniteSets, TLC

VARIABLES
    text,            \* argument of convertBanglishToBengali
    pc,              \* position in the call: "start", "map", "scan", "done"
    words,           \* text.split(' ')
    wi,              \* number of words already mapped
    word,            \* argument of the running convertWord call
    i,               \* convertWord: scan position (0-based, as in the code)
    result,          \* convertWord: output buffer
    convertedWords,  \* results of the map callback so far
    output,          \* value returned by convertBanglishToBengali
    timeoutId,       \* createRealtimeConverter: handle of the last setTimeout (0: none yet)
    timers,          \* timers scheduled and neither fired nor cleared
    calls,           \* arguments of the calls made to the wrapper, in order
    delivered,       \* invocations of the callback, in order
    req,             \* gemini-chat: the request being served
    env,             \* gemini-chat: Deno.env (five Gemini slots, the gateway key)
    hpc,             \* gemini-chat: position in the handler
    keys,            \* gemini-chat: key list handed to callGeminiWithRetry
    attempt,         \* callGeminiWithRetry: loop counter
    idx,             \* callGeminiWithRetry: index of the next key (0-based)
    lastError,       \* callGeminiWithRetry: lastError ("null" or a message)
    attemptError,    \* history: error of the most recent attempt
    fetches,         \* history: the fetch calls issued, in order
    called,          \* history: the provider functions called, in order
    primary,         \* history: "idle", "running", "returned" or "threw"
    primaryError,    \* handler: the caught primaryError ("" if none)
    generatedText,   \* handler: generatedText ("" while unassigned)
    response,        \* handler: the Response returned
    pass,            \* which application of convertBanglishToBengali runs (1 or 2)
    first,           \* what the first application returned, once re-applied
    banglishText,    \* editor page: the text of the input area
    bengaliText,     \* editor page: the text shown in the output area
    bengaliTokens,   \* token-based editor: the converted tokens shown
    isConverting,    \* editor page: the isConverting flag
    debounceTimer,   \* editor page: the timer of the debounce effect
    inflight,        \* conversions that await an answer of the edge function
    launched,        \* history: the texts of the conversions started, in order
    shownBy,         \* history: the conversion whose result is shown (0: none)
    failed,          \* history: some conversion ended in its catch block
    edits            \* history: the number of changes made to the text

convVars == <<text, pc, words, wi, word, i, result, convertedWords, output>>

debVars == <<timeoutId, timers, calls, delivered>>

edgeVars ==
    <<req, env, hpc, keys, attempt, idx, lastError, attemptError, fetches, called,
      primary, primaryError, generatedText, response>>

idemVars == <<pass, first>>

uiVars ==
    <<banglishText, bengaliText, bengaliTokens, isConverting, debounceTimer, inflight,
      launched, shownBy, failed, edits>>

otherVars == <<debVars, edgeVars, idemVars, uiVars>>

vars == <<convVars, debVars, edgeVars, idemVars, uiVars>>

(***************************************************************************)
(* Bounds and input alphabets                                              *)
(***************************************************************************)
MaxLen == 4

\* calls made to one debounce wrapper
MaxCalls == 3

\* texts handed to the debounce wrapper
DebounceInputs == {<<>>, <<"n", "a">>, <<"a", "1">>}

\* letters of the dictionary keys "na" / "nai", upper-case variants, space
WordAlphabet == {"n", "a", "i", "N", "I", " "}

\* characters no table maps, a vowel, and upper-case letters of the key "ei"
PassAlphabet == {"E", "I", "e", "!", "u09BE", " "}

\* every vowel letter of the tables and one consonant
VowelAlphabet == {"a", "i", "u", "e", "o", "A", "k"}

\* a consonant, two vowels and the ri-kar typed as Bengali
KarAlphabet == {"k", "a", "i", "u09C3"}

\* the dictionary key "oi", line feed, tab and space
NewlineAlphabet == {"o", "i", "u000A", "u0009", " "}

\* dictionary keys separated by a line feed or a tab instead of a space
NewlineProbeTexts ==
    { <<"o", "i", "u000A", "o", "i">>,
      <<"n", "a", "i", "u0009", "n", "a", "i">>,
      <<"o", "i", " ", "o", "i", "u000A", "e", "i">> }

\* a consonant, a vowel, an unmapped capital, a digit, the space and a
\* Bengali diacritic
IdemAlphabet == {"k", "a", "E", "1", " ", "u09BE"}

\* changes of the text per run of an editor
MaxEdits == 3

\* conversions started per run of an editor
MaxConversions == 3

\* texts the user types, pastes or opens
EditorTexts ==
    { <<>>,
      <<" ">>,
      <<"a", "m", "i">>,
      <<"k", "i">>,
      <<"a", "m", "i", " ", "k", "i">> }

\* the "chh" cluster, two vowels, a digit, punctuation and a Bengali kar
ScanAlphabet == {"c", "h", "a", "i", "1", "!", "u09BE"}

TextsOver(alphabet) == UNION {[1..n -> alphabet] : n \in 0..MaxLen}

\* words that name a property every JavaScript object inherits
ProbeTexts ==
    { <<"c", "o", "n", "s", "t", "r", "u", "c", "t", "o", "r">>,
      <<"_", "_", "p", "r", "o", "t", "o", "_", "_">>,
      <<"C", "o", "n", "s", "t", "r", "u", "c", "t", "o", "r">>,
      <<"c", "o", "n", "s", "t", "r", "u", "c", "t", "o", "r", " ", "n", "a">> }

(***************************************************************************)
(* Tables                                                                  *)
(***************************************************************************)
\* Consonants mapping
consonants ==
    (<<"k", "h">> :> <<"u0996">>) @@ (<<"g", "h">> :> <<"u0998">>) @@ (<<"n", "g">> :> <<"u0982">>) @@
    (<<"c", "h">> :> <<"u099A">>) @@ (<<"c", "h", "h">> :> <<"u099B">>) @@ (<<"j", "h">> :> <<"u099D">>) @@
    (<<"n", "h">> :> <<"u099E">>) @@ (<<"t", "h">> :> <<"u09A5">>) @@ (<<"d", "h">> :> <<"u09A7">>) @@
    (<<"p", "h">> :> <<"u09AB">>) @@ (<<"b", "h">> :> <<"u09AD">>) @@ (<<"s", "h">> :> <<"u09B6">>) @@
    (<<"S", "h">> :> <<"u09B7">>) @@ (<<"r", "h">> :> <<"u09A2", "u09BC">>) @@ (<<"R", "h">> :> <<"u09A2", "u09BC">>) @@
    (<<"k">> :> <<"u0995">>) @@ (<<"g">> :> <<"u0997">>) @@ (<<"c">> :> <<"u099A">>) @@
    (<<"j">> :> <<"u099C">>) @@ (<<"t">> :> <<"u09A4">>) @@ (<<"d">> :> <<"u09A6">>) @@
    (<<"n">> :> <<"u09A8">>) @@ (<<"p">> :> <<"u09AA">>) @@ (<<"b">> :> <<"u09AC">>) @@
    (<<"m">> :> <<"u09AE">>) @@ (<<"y">> :> <<"u09AF">>) @@ (<<"r">> :> <<"u09B0">>) @@
    (<<"l">> :> <<"u09B2">>) @@ (<<"w">> :> <<"u0993">>) @@ (<<"v">> :> <<"u09AD">>) @@
    (<<"s">> :> <<"u09B8">>) @@ (<<"h">> :> <<"u09B9">>) @@ (<<"R">> :> <<"u09A1", "u09BC">>) @@
    (<<"Y">> :> <<"u09AF", "u09BC">>) @@ (<<"q">> :> <<"u0995">>) @@ (<<"f">> :> <<"u09AB">>) @@
    (<<"z">> :> <<"u09AF">>) @@ (<<"x">> :> <<"u0995", "u09CD", "u09B8">>) @@ (<<"T">> :> <<"u099F">>) @@
    (<<"D">> :> <<"u09A1">>) @@ (<<"N">> :> <<"u09A3">>)

\* bug variant: the semivowel "y" is also listed as a vowel pattern
vowelsWithY ==
    (<<"a">> :> <<"u09BE">>) @@ (<<"a", "a">> :> <<"u09BE">>) @@ (<<"i">> :> <<"u09BF">>) @@
    (<<"i", "i">> :> <<"u09C0">>) @@ (<<"u">> :> <<"u09C1">>) @@ (<<"u", "u">> :> <<"u09C2">>) @@
    (<<"e">> :> <<"u09C7">>) @@ (<<"e", "e">> :> <<"u09C0">>) @@ (<<"o", "i">> :> <<"u09C8">>) @@
    (<<"o">> :> <<"u09CB">>) @@ (<<"o", "o">> :> <<"u09C1">>) @@ (<<"o", "u">> :> <<"u09CC">>) @@
    (<<"A">> :> <<"u09BE">>) @@
    (<<"y">> :> <<"u09C7">>)

\* Vowels mapping (dependent diacritics)
vowels ==
    (<<"a">> :> <<"u09BE">>) @@ (<<"a", "a">> :> <<"u09BE">>) @@ (<<"i">> :> <<"u09BF">>) @@
    (<<"i", "i">> :> <<"u09C0">>) @@ (<<"u">> :> <<"u09C1">>) @@ (<<"u", "u">> :> <<"u09C2">>) @@
    (<<"e">> :> <<"u09C7">>) @@ (<<"e", "e">> :> <<"u09C0">>) @@ (<<"o", "i">> :> <<"u09C8">>) @@
    (<<"o">> :> <<"u09CB">>) @@ (<<"o", "o">> :> <<"u09C1">>) @@ (<<"o", "u">> :> <<"u09CC">>) @@
    (<<"A">> :> <<"u09BE">>)

\* Independent vowels (when at start or standalone)
independentVowels ==
    (<<"a">> :> <<"u0985">>) @@ (<<"a", "a">> :> <<"u0986">>) @@ (<<"i">> :> <<"u0987">>) @@
    (<<"i", "i">> :> <<"u0988">>) @@ (<<"u">> :> <<"u0989">>) @@ (<<"u", "u">> :> <<"u098A">>) @@
    (<<"e">> :> <<"u098F">>) @@ (<<"o", "i">> :> <<"u0990">>) @@ (<<"o">> :> <<"u0993">>) @@
    (<<"o", "u">> :> <<"u0994">>) @@ (<<"r", "i">> :> <<"u098B">>) @@ (<<"A">> :> <<"u0986">>)

\* bug variant: the aa-kar is missing from the set
karsWithoutAaKar ==
    {"u09BF", "u09C0", "u09C1", "u09C2", "u09C3", "u09C7", "u09C8", "u09CB", "u09CC"}

\* Kar symbols (vowel diacritics)
kars ==
    {"u09BE", "u09BF", "u09C0", "u09C1", "u09C2", "u09C3", "u09C7", "u09C8", "u09CB", "u09CC"}

\* Numbers
numbers ==
    (<<"0">> :> <<"u09E6">>) @@ (<<"1">> :> <<"u09E7">>) @@ (<<"2">> :> <<"u09E8">>) @@ (<<"3">> :> <<"u09E9">>) @@ (<<"4">> :> <<"u09EA">>) @@
    (<<"5">> :> <<"u09EB">>) @@ (<<"6">> :> <<"u09EC">>) @@ (<<"7">> :> <<"u09ED">>) @@ (<<"8">> :> <<"u09EE">>) @@ (<<"9">> :> <<"u09EF">>)

\* Common word mappings, probed with the lower-cased word
commonWords ==
    (<<"a", "m", "i">> :> <<"u0986", "u09AE", "u09BF">>) @@
    (<<"t", "u", "m", "i">> :> <<"u09A4", "u09C1", "u09AE", "u09BF">>) @@
    (<<"a", "p", "n", "i">> :> <<"u0986", "u09AA", "u09A8", "u09BF">>) @@
    (<<"t", "i", "n", "i">> :> <<"u09A4", "u09BF", "u09A8", "u09BF">>) @@
    (<<"a", "m", "r", "a">> :> <<"u0986", "u09AE", "u09B0", "u09BE">>) @@
    (<<"t", "o", "m", "r", "a">> :> <<"u09A4", "u09CB", "u09AE", "u09B0", "u09BE">>) @@
    (<<"a", "p", "n", "a", "r", "a">> :> <<"u0986", "u09AA", "u09A8", "u09BE", "u09B0", "u09BE">>) @@
    (<<"t", "a", "r", "a">> :> <<"u09A4", "u09BE", "u09B0", "u09BE">>) @@
    (<<"k", "i">> :> <<"u0995", "u09BF">>) @@
    (<<"k", "e", "n", "o">> :> <<"u0995", "u09C7", "u09A8">>) @@
    (<<"k", "o", "t", "h", "a", "i">> :> <<"u0995", "u09CB", "u09A5", "u09BE", "u09AF", "u09BC">>) @@
    (<<"k", "o", "k", "h", "o", "n">> :> <<"u0995", "u0996", "u09A8">>) @@
    (<<"k", "i", "b", "h", "a", "b", "e">> :> <<"u0995", "u09BF", "u09AD", "u09BE", "u09AC", "u09C7">>) @@
    (<<"e", "t", "o">> :> <<"u098F", "u09A4">>) @@
    (<<"o", "t", "o">> :> <<"u0993", "u09A4">>) @@
    (<<"e", "i">> :> <<"u098F", "u0987">>) @@
    (<<"o", "i">> :> <<"u0993", "u0987">>) @@
    (<<"h", "a", "e">> :> <<"u09B9", "u09CD", "u09AF", "u09BE", "u0981">>) @@
    (<<"n", "a">> :> <<"u09A8", "u09BE">>) @@
    (<<"n", "a", "i">> :> <<"u09A8", "u09BE", "u0987">>) @@
    (<<"a", "c", "h", "e">> :> <<"u0986", "u099B", "u09C7">>) @@
    (<<"c", "h", "h", "i", "l", "o">> :> <<"u099B", "u09BF", "u09B2">>) @@
    (<<"h", "o", "b", "e">> :> <<"u09B9", "u09AC", "u09C7">>) @@
    (<<"k", "o", "r", "a">> :> <<"u0995", "u09B0", "u09BE">>) @@
    (<<"k", "o", "r", "e">> :> <<"u0995", "u09B0", "u09C7">>) @@
    (<<"k", "o", "r", "e", "c", "h", "h", "i">> :> <<"u0995", "u09B0", "u09C7", "u099B", "u09BF">>) @@
    (<<"k", "o", "r", "b", "o">> :> <<"u0995", "u09B0", "u09AC">>) @@
    (<<"e", "k", "t", "a">> :> <<"u098F", "u0995", "u099F", "u09BE">>) @@
    (<<"e", "k", "t", "i">> :> <<"u098F", "u0995", "u099F", "u09BF">>) @@
    (<<"k", "h", "a", "o", "a">> :> <<"u0996", "u09BE", "u0993", "u09AF", "u09BC", "u09BE">>) @@
    (<<"g", "h", "u", "m">> :> <<"u0998", "u09C1", "u09AE">>) @@
    (<<"b", "h", "a", "t">> :> <<"u09AD", "u09BE", "u09A4">>) @@
    (<<"p", "a", "n", "i">> :> <<"u09AA", "u09BE", "u09A8", "u09BF">>) @@
    (<<"j", "o", "l">> :> <<"u099C", "u09B2">>) @@
    (<<"d", "h", "o", "n", "n", "o", "b", "a", "d">> :> <<"u09A7", "u09A8", "u09CD", "u09AF", "u09AC", "u09BE", "u09A6">>) @@
    (<<"s", "h", "u", "k", "r", "i", "y", "a">> :> <<"u09B6", "u09C1", "u0995", "u09CD", "u09B0", "u09BF", "u09AF", "u09BC", "u09BE">>) @@
    (<<"v", "a", "l", "o">> :> <<"u09AD", "u09BE", "u09B2", "u09CB">>) @@
    (<<"b", "h", "a", "l", "o">> :> <<"u09AD", "u09BE", "u09B2", "u09CB">>) @@
    (<<"k", "h", "a", "r", "a", "p">> :> <<"u0996", "u09BE", "u09B0", "u09BE", "u09AA">>) @@
    (<<"s", "u", "n", "d", "o", "r">> :> <<"u09B8", "u09C1", "u09A8", "u09CD", "u09A6", "u09B0">>) @@
    (<<"a", "m", "a", "r">> :> <<"u0986", "u09AE", "u09BE", "u09B0">>) @@
    (<<"t", "o", "m", "a", "r">> :> <<"u09A4", "u09CB", "u09AE", "u09BE", "u09B0">>) @@
    (<<"t", "a", "r">> :> <<"u09A4", "u09BE", "u09B0">>) @@
    (<<"j", "o", "d", "i">> :> <<"u09AF", "u09A6", "u09BF">>) @@
    (<<"t", "a", "h", "o", "l", "e">> :> <<"u09A4", "u09BE", "u09B9", "u09B2", "u09C7">>) @@
    (<<"k", "i", "n", "t", "u">> :> <<"u0995", "u09BF", "u09A8", "u09CD", "u09A4", "u09C1">>) @@
    (<<"e", "b", "o", "n", "g">> :> <<"u098F", "u09AC", "u0982">>) @@
    (<<"b", "a">> :> <<"u09AC", "u09BE">>) @@
    (<<"t", "h", "e", "k", "e">> :> <<"u09A5", "u09C7", "u0995", "u09C7">>)

ObjectPrototype ==
    (<<"c", "o", "n", "s", "t", "r", "u", "c", "t", "o", "r">> :> <<"f", "u", "n", "c", "t", "i", "o", "n", " ", "O", "b", "j", "e", "c", "t", "(", ")", " ", "{", " ", "[", "n", "a", "t", "i", "v", "e", " ", "c", "o", "d", "e", "]", " ", "}">>) @@
    (<<"_", "_", "p", "r", "o", "t", "o", "_", "_">> :> <<"[", "o", "b", "j", "e", "c", "t", " ", "O", "b", "j", "e", "c", "t", "]">>) @@
    (<<"t", "o", "S", "t", "r", "i", "n", "g">> :> <<"f", "u", "n", "c", "t", "i", "o", "n", " ", "t", "o", "S", "t", "r", "i", "n", "g", "(", ")", " ", "{", " ", "[", "n", "a", "t", "i", "v", "e", " ", "c", "o", "d", "e", "]", " ", "}">>) @@
    (<<"v", "a", "l", "u", "e", "O", "f">> :> <<"f", "u", "n", "c", "t", "i", "o", "n", " ", "v", "a", "l", "u", "e", "O", "f", "(", ")", " ", "{", " ", "[", "n", "a", "t", "i", "v", "e", " ", "c", "o", "d", "e", "]", " ", "}">>) @@
    (<<"h", "a", "s", "O", "w", "n", "P", "r", "o", "p", "e", "r", "t", "y">> :> <<"f", "u", "n", "c", "t", "i", "o", "n", " ", "h", "a", "s", "O", "w", "n", "P", "r", "o", "p", "e", "r", "t", "y", "(", ")", " ", "{", " ", "[", "n", "a", "t", "i", "v", "e", " ", "c", "o", "d", "e", "]", " ", "}">>) @@
    (<<"i", "s", "P", "r", "o", "t", "o", "t", "y", "p", "e", "O", "f">> :> <<"f", "u", "n", "c", "t", "i", "o", "n", " ", "i", "s", "P", "r", "o", "t", "o", "t", "y", "p", "e", "O", "f", "(", ")", " ", "{", " ", "[", "n", "a", "t", "i", "v", "e", " ", "c", "o", "d", "e", "]", " ", "}">>) @@
    (<<"p", "r", "o", "p", "e", "r", "t", "y", "I", "s", "E", "n", "u", "m", "e", "r", "a", "b", "l", "e">> :> <<"f", "u", "n", "c", "t", "i", "o", "n", " ", "p", "r", "o", "p", "e", "r", "t", "y", "I", "s", "E", "n", "u", "m", "e", "r", "a", "b", "l", "e", "(", ")", " ", "{", " ", "[", "n", "a", "t", "i", "v", "e", " ", "c", "o", "d", "e", "]", " ", "}">>) @@
    (<<"t", "o", "L", "o", "c", "a", "l", "e", "S", "t", "r", "i", "n", "g">> :> <<"f", "u", "n", "c", "t", "i", "o", "n", " ", "t", "o", "L", "o", "c", "a", "l", "e", "S", "t", "r", "i", "n", "g", "(", ")", " ", "{", " ", "[", "n", "a", "t", "i", "v", "e", " ", "c", "o", "d", "e", "]", " ", "}">>) @@
    (<<"_", "_", "d", "e", "f", "i", "n", "e", "G", "e", "t", "t", "e", "r", "_", "_">> :> <<"f", "u", "n", "c", "t", "i", "o", "n", " ", "_", "_", "d", "e", "f", "i", "n", "e", "G", "e", "t", "t", "e", "r", "_", "_", "(", ")", " ", "{", " ", "[", "n", "a", "t", "i", "v", "e", " ", "c", "o", "d", "e", "]", " ", "}">>) @@
    (<<"_", "_", "d", "e", "f", "i", "n", "e", "S", "e", "t", "t", "e", "r", "_", "_">> :> <<"f", "u", "n", "c", "t", "i", "o", "n", " ", "_", "_", "d", "e", "f", "i", "n", "e", "S", "e", "t", "t", "e", "r", "_", "_", "(", ")", " ", "{", " ", "[", "n", "a", "t", "i", "v", "e", " ", "c", "o", "d", "e", "]", " ", "}">>) @@
    (<<"_", "_", "l", "o", "o", "k", "u", "p", "G", "e", "t", "t", "e", "r", "_", "_">> :> <<"f", "u", "n", "c", "t", "i", "o", "n", " ", "_", "_", "l", "o", "o", "k", "u", "p", "G", "e", "t", "t", "e", "r", "_", "_", "(", ")", " ", "{", " ", "[", "n", "a", "t", "i", "v", "e", " ", "c", "o", "d", "e", "]", " ", "}">>) @@
    (<<"_", "_", "l", "o", "o", "k", "u", "p", "S", "e", "t", "t", "e", "r", "_", "_">> :> <<"f", "u", "n", "c", "t", "i", "o", "n", " ", "_", "_", "l", "o", "o", "k", "u", "p", "S", "e", "t", "t", "e", "r", "_", "_", "(", ")", " ", "{", " ", "[", "n", "a", "t", "i", "v", "e", " ", "c", "o", "d", "e", "]", " ", "}">>)

LowerCase ==
    ("A" :> "a") @@ ("B" :> "b") @@ ("C" :> "c") @@ ("D" :> "d") @@ ("E" :> "e") @@ ("F" :> "f") @@
    ("G" :> "g") @@ ("H" :> "h") @@ ("I" :> "i") @@ ("J" :> "j") @@ ("K" :> "k") @@ ("L" :> "l") @@
    ("M" :> "m") @@ ("N" :> "n") @@ ("O" :> "o") @@ ("P" :> "p") @@ ("Q" :> "q") @@ ("R" :> "r") @@
    ("S" :> "s") @@ ("T" :> "t") @@ ("U" :> "u") @@ ("V" :> "v") @@ ("W" :> "w") @@ ("X" :> "x") @@
    ("Y" :> "y") @@ ("Z" :> "z")
(***************************************************************************)
(* Property reads on a table object: table[key] finds the table's own keys *)
(* and, failing that, the properties inherited from Object.prototype; an   *)
(* inherited value is truthy and is rendered by string conversion.         *)
(***************************************************************************)
Has(table, key) == key \in DOMAIN table \/ key \in DOMAIN ObjectPrototype

Get(table, key) == IF key \in DOMAIN table THEN table[key] ELSE ObjectPrototype[key]

(***************************************************************************)
(* String helpers                                                          *)
(***************************************************************************)
toLowerCase(s) ==
    [k \in 1..Len(s) |-> IF s[k] \in DOMAIN LowerCase THEN LowerCase[s[k]] ELSE s[k]]

\* s.substring(from, to), clamped to the string like the built-in
substring(s, from, to) ==
    SubSeq(s, from + 1, IF to < Len(s) THEN to ELSE Len(s))

RECURSIVE SplitFrom(_, _, _)
SplitFrom(s, k, cur) ==
    IF k > Len(s) THEN <<cur>>
    ELSE IF s[k] = " " THEN <<cur>> \o SplitFrom(s, k + 1, <<>>)
    ELSE SplitFrom(s, k + 1, Append(cur, s[k]))

\* bug variant: line feed and tab separate words too
splitOnWhitespace(s) ==
    SplitFrom([k \in 1..Len(s) |-> IF s[k] \in {"u000A", "u0009"} THEN " " ELSE s[k]],
              1, <<>>)

\* bug variant: a run of spaces counts as one separator
splitOnRuns(s) ==
    LET parts == SplitFrom(s, 1, <<>>)
        IsWord(x) == x # <<>>
    IN  IF SelectSeq(parts, IsWord) = <<>> THEN <<<<>>>> ELSE SelectSeq(parts, IsWord)

\* text.split(' ')
split(s) == SplitFrom(s, 1, <<>>)

RECURSIVE join(_)
\* convertedWords.join(' ')
join(ws) ==
    IF Len(ws) = 0 THEN <<>>
    ELSE IF Len(ws) = 1 THEN ws[1]
    ELSE ws[1] \o <<" ">> \o join(Tail(ws))

(***************************************************************************)
(* convertWord: one iteration of the scan loop                             *)
(***************************************************************************)
\* bug variant: the 3-character probe stops one position short of the end
MatchThreeOffByOne(w, p) ==
    p + 3 < Len(w) /\ Has(consonants, substring(w, p, p + 3))

\* the 3-character probe
MatchThree(w, p) ==
    p + 2 < Len(w) /\ Has(consonants, substring(w, p, p + 3))

\* the 2-character consonant probe
MatchTwoConsonant(w, p) ==
    p + 1 < Len(w) /\ Has(consonants, substring(w, p, p + 2))

\* the 2-character vowel probe
MatchTwoVowel(w, p) ==
    p + 1 < Len(w) /\ Has(vowels, substring(w, p, p + 2))

\* result === '' || i === 0
AtStart(res, p) == res = <<>> \/ p = 0

\* bug variant: no fallback to the first character of the pattern
IndependentTwoNoFallback(two) ==
    IF Has(independentVowels, two) THEN Get(independentVowels, two) ELSE two

\* independentVowels[two] || independentVowels[two.charAt(0)] || two
IndependentTwo(two) ==
    IF Has(independentVowels, two) THEN Get(independentVowels, two)
    ELSE IF Has(independentVowels, <<two[1]>>) THEN Get(independentVowels, <<two[1]>>)
    ELSE two

\* independentVowels[single] || single
IndependentSingle(single) ==
    IF Has(independentVowels, single) THEN Get(independentVowels, single) ELSE single

\* what the 2-character vowel branch appends
TwoVowelGlyph(two, res, p) ==
    IF AtStart(res, p) THEN IndependentTwo(two) ELSE Get(vowels, two)

\* what the single vowel branch appends
SingleVowelGlyph(single, res, p) ==
    IF AtStart(res, p) THEN IndependentSingle(single)
    ELSE LET lastChar == res[Len(res)]
         IN  IF lastChar \notin kars THEN Get(vowels, single) ELSE single

\* bug variant: a digit is converted only at the start of a word or after
\* another digit
SingleGlyphDigitInContext(single, res, p) ==
    IF Has(numbers, single) /\ (res = <<>> \/ <<res[Len(res)]>> \in {numbers[d] : d \in DOMAIN numbers})
    THEN Get(numbers, single)
    ELSE IF Has(consonants, single) THEN Get(consonants, single)
    ELSE IF Has(vowels, single) THEN SingleVowelGlyph(single, res, p)
    ELSE single

\* bug variant: a character no table knows is dropped
SingleGlyphDropsUnmapped(single, res, p) ==
    IF Has(numbers, single) THEN Get(numbers, single)
    ELSE IF Has(consonants, single) THEN Get(consonants, single)
    ELSE IF Has(vowels, single) THEN SingleVowelGlyph(single, res, p)
    ELSE <<>>

\* what the single-character stage appends
SingleGlyph(single, res, p) ==
    IF Has(numbers, single) THEN Get(numbers, single)
    ELSE IF Has(consonants, single) THEN Get(consonants, single)
    ELSE IF Has(vowels, single) THEN SingleVowelGlyph(single, res, p)
    ELSE single

\* one pass through the body of  while (i < word.length)
ScanStep(w, p, res) ==
    IF MatchThree(w, p)
    THEN [result |-> res \o Get(consonants, substring(w, p, p + 3)), i |-> p + 3]
    ELSE IF MatchTwoConsonant(w, p)
    THEN [result |-> res \o Get(consonants, substring(w, p, p + 2)), i |-> p + 2]
    ELSE IF MatchTwoVowel(w, p)
    THEN [result |-> res \o TwoVowelGlyph(substring(w, p, p + 2), res, p), i |-> p + 2]
    ELSE [result |-> res \o SingleGlyph(<<w[p + 1]>>, res, p), i |-> p + 1]

RECURSIVE ScanFrom(_, _, _)
ScanFrom(w, p, res) ==
    IF p < Len(w)
    THEN LET s == ScanStep(w, p, res) IN ScanFrom(w, s.i, s.result)
    ELSE res

\* bug variant: a bare return, which yields undefined and not a string
emptyStringUndefined == <<"undefined">>

\* the '' returned for a falsy text and for a falsy word
emptyString == <<>>

convertWord(w) == IF w = <<>> THEN emptyString ELSE ScanFrom(w, 0, <<>>)

(***************************************************************************)
(* convertBanglishToBengali                                                *)
(***************************************************************************)
\* bug variant: the dictionary is probed with the word as typed
lowerWordAsTyped(w) == w

\* const lowerWord = word.toLowerCase()
lowerWord(w) == toLowerCase(w)

\* the map callback
convertOneWord(w) ==
    IF Has(commonWords, lowerWord(w)) THEN Get(commonWords, lowerWord(w))
    ELSE convertWord(w)

convertBanglishToBengali(t) ==
    IF t = <<>> THEN emptyString
    ELSE LET ws == split(t)
         IN  join([k \in 1..Len(ws) |-> convertOneWord(ws[k])])

(***************************************************************************)
(* The call as a state machine                                             *)
(***************************************************************************)
DebounceInit ==
    /\ timeoutId = 0
    /\ timers = {}
    /\ calls = <<>>
    /\ delivered = <<>>

\* no request is being served
EdgeIdle ==
    /\ hpc = "off"
    /\ req = [method |-> "none", body |-> [kind |-> "none"]]
    /\ env = [slots |-> <<>>, lovable |-> ""]
    /\ keys = <<>>
    /\ attempt = 0
    /\ idx = 0
    /\ lastError = "null"
    /\ attemptError = ""
    /\ fetches = <<>>
    /\ called = <<>>
    /\ primary = "idle"
    /\ primaryError = ""
    /\ generatedText = ""
    /\ response = [status |-> 0, error |-> "", details |-> "", text |-> ""]

\* the function has not been re-applied to its own output
FirstPass ==
    /\ pass = 1
    /\ first = <<>>

\* the editor as mounted: empty text, nothing shown, nothing scheduled
UiInit ==
    /\ banglishText = <<>>
    /\ bengaliText = <<>>
    /\ bengaliTokens = <<>>
    /\ isConverting = FALSE
    /\ debounceTimer = [pending |-> FALSE, text |-> <<>>]
    /\ inflight = {}
    /\ launched = <<>>
    /\ shownBy = 0
    /\ failed = FALSE
    /\ edits = 0

InitCall ==
    /\ DebounceInit
    /\ EdgeIdle
    /\ FirstPass
    /\ UiInit
    /\ pc = "start"
    /\ words = <<>>
    /\ wi = 0
    /\ word = <<>>
    /\ i = 0
    /\ result = <<>>
    /\ convertedWords = <<>>
    /\ output = <<>>

Init == text \in TextsOver(WordAlphabet) \cup ProbeTexts /\ InitCall

InitPass == text \in TextsOver(PassAlphabet) \cup ProbeTexts /\ InitCall

InitVowel == text \in TextsOver(VowelAlphabet) \cup ProbeTexts /\ InitCall

InitKar == text \in TextsOver(KarAlphabet) \cup ProbeTexts /\ InitCall

InitNewline ==
    text \in TextsOver(NewlineAlphabet) \cup NewlineProbeTexts \cup ProbeTexts /\ InitCall

InitScan == text \in TextsOver(ScanAlphabet) \cup ProbeTexts /\ InitCall

\* entry: the empty-text return, else the split
Enter ==
    /\ pc = "start"
    /\ IF text = <<>>
       THEN /\ output' = emptyString
            /\ pc' = "done"
            /\ words' = words
       ELSE /\ words' = split(text)
            /\ pc' = "map"
            /\ output' = output
    /\ UNCHANGED <<text, wi, word, i, result, convertedWords>>
    /\ UNCHANGED otherVars

\* the map callback on the next word: dictionary hit, or call convertWord
MapWord ==
    /\ pc = "map"
    /\ wi < Len(words)
    /\ LET w == words[wi + 1]
       IN  IF Has(commonWords, lowerWord(w))
           THEN /\ convertedWords' = Append(convertedWords, Get(commonWords, lowerWord(w)))
                /\ wi' = wi + 1
                /\ UNCHANGED <<pc, word, i, result>>
           ELSE /\ word' = w
                /\ i' = 0
                /\ result' = <<>>
                /\ IF w = <<>>
                   THEN /\ convertedWords' = Append(convertedWords, emptyString)
                        /\ wi' = wi + 1
                        /\ pc' = pc
                   ELSE /\ pc' = "scan"
                        /\ UNCHANGED <<convertedWords, wi>>
    /\ UNCHANGED <<text, words, output>>
    /\ UNCHANGED otherVars

\* one iteration of convertWord's loop
ScanIteration ==
    /\ pc = "scan"
    /\ i < Len(word)
    /\ LET s == ScanStep(word, i, result)
       IN  /\ i' = s.i
           /\ result' = s.result
    /\ UNCHANGED <<text, pc, words, wi, word, convertedWords, output>>
    /\ UNCHANGED otherVars

\* convertWord returns; the callback's value joins convertedWords
ReturnWord ==
    /\ pc = "scan"
    /\ i >= Len(word)
    /\ convertedWords' = Append(convertedWords, result)
    /\ wi' = wi + 1
    /\ pc' = "map"
    /\ UNCHANGED <<text, words, word, i, result, output>>
    /\ UNCHANGED otherVars

\* the join and the return
JoinWords ==
    /\ pc = "map"
    /\ wi = Len(words)
    /\ output' = join(convertedWords)
    /\ pc' = "done"
    /\ UNCHANGED <<text, words, wi, word, i, result, convertedWords>>
    /\ UNCHANGED otherVars

Next == Enter \/ MapWord \/ ScanIteration \/ ReturnWord \/ JoinWords

Spec == Init /\ [][Next]_vars

ScanSpec == InitScan /\ [][Next]_vars

PassSpec == InitPass /\ [][Next]_vars

VowelSpec == InitVowel /\ [][Next]_vars

KarSpec == InitKar /\ [][Next]_vars

NewlineSpec == InitNewline /\ [][Next]_vars

\* the call runs to completion once started: nothing suspends it
FairScanSpec == ScanSpec /\ WF_vars(Next)

InitIdem == text \in TextsOver(IdemAlphabet) \cup ProbeTexts /\ InitCall

\* the caller passes the returned text to convertBanglishToBengali again
Reapply ==
    /\ pc = "done"
    /\ pass = 1
    /\ pass' = 2
    /\ first' = output
    /\ text' = output
    /\ pc' = "start"
    /\ words' = <<>>
    /\ wi' = 0
    /\ word' = <<>>
    /\ i' = 0
    /\ result' = <<>>
    /\ convertedWords' = <<>>
    /\ output' = <<>>
    /\ UNCHANGED <<debVars, edgeVars, uiVars>>

NextIdem == Next \/ Reapply

IdemSpec == InitIdem /\ [][NextIdem]_vars

(***************************************************************************)
(* createRealtimeConverter: the debounce wrapper                           *)
(***************************************************************************)
\* bug variant: the pending timer is not cleared
clearTimeoutNoop(ts, id) == ts

\* clearTimeout(timeoutId): a handle that is not pending clears nothing
clearTimeout(ts, id) == {t \in ts : t.id # id}

\* bug variant: the new handle is not stored in the closure's timeoutId
storedHandleStale(old, new) == old

\* timeoutId = setTimeout(...)
storedHandle(old, new) == new

ConvIdle ==
    /\ text = <<>>
    /\ pc = "start"
    /\ words = <<>>
    /\ wi = 0
    /\ word = <<>>
    /\ i = 0
    /\ result = <<>>
    /\ convertedWords = <<>>
    /\ output = <<>>

InitDebounce == ConvIdle /\ DebounceInit /\ EdgeIdle /\ FirstPass /\ UiInit

\* one call of the returned function: clear the pending timer, schedule anew
CallWrapper ==
    /\ Len(calls) < MaxCalls
    /\ \E banglish \in DebounceInputs :
          LET handle == Len(calls) + 1
          IN  /\ timers' = clearTimeout(timers, timeoutId)
                              \cup {[id |-> handle, banglish |-> banglish]}
              /\ timeoutId' = storedHandle(timeoutId, handle)
              /\ calls' = Append(calls, banglish)
    /\ UNCHANGED <<delivered, convVars, edgeVars, idemVars, uiVars>>

\* a scheduled timer fires: convert, then invoke the callback
FireTimer ==
    /\ \E t \in timers :
          /\ timers' = timers \ {t}
          /\ delivered' = Append(delivered,
                                 [of |-> t.id, at |-> Len(calls),
                                  bengali |-> convertBanglishToBengali(t.banglish)])
    /\ UNCHANGED <<timeoutId, calls, convVars, edgeVars, idemVars, uiVars>>

NextDebounce == CallWrapper \/ FireTimer

DebounceSpec == InitDebounce /\ [][NextDebounce]_vars

\* a timer that stays scheduled fires after its delay
FairDebounceSpec == DebounceSpec /\ WF_vars(FireTimer)

(***************************************************************************)
(* gemini-chat: the edge function's request handler                        *)
(*                                                                         *)
(* A JavaScript value of the request body is a record with its type and,   *)
(* for a string, its text.  An API key is described by what the key        *)
(* pattern reads: its prefix, the length of the rest and whether the rest  *)
(* holds only letters, digits, "-" and "_".                                *)
(***************************************************************************)
\* the GEMINI_API_KEY_1 .. GEMINI_API_KEY_5 slots
EnvSlots == 5

\* .slice(0, 5)
KeyLimit == 5

\* {20,} in the key pattern
KeyTailMin == 20

\* a well-formed key, told apart by n
GoodKey(n) ==
    [type |-> "string", prefix |-> "AIza", tailLen |-> 35, tailClean |-> TRUE, n |-> n]

ShortKey == [type |-> "string", prefix |-> "AIza", tailLen |-> 19, tailClean |-> TRUE, n |-> 7]

DottedKey == [type |-> "string", prefix |-> "AIza", tailLen |-> 35, tailClean |-> FALSE, n |-> 8]

ForeignKey == [type |-> "string", prefix |-> "sk-", tailLen |-> 35, tailClean |-> TRUE, n |-> 9]

NumberKey == [type |-> "number", prefix |-> "", tailLen |-> 0, tailClean |-> FALSE, n |-> 10]

\* the value of slot n when it is set
EnvKey(n) ==
    [type |-> "string", prefix |-> "AIza", tailLen |-> 35, tailClean |-> TRUE, n |-> 10 + n]

\* values of the apiKeys field: absent, not an array, and arrays
ApiKeysValues ==
    { [isArray |-> FALSE, items |-> <<>>],
      [isArray |-> TRUE, items |-> <<>>],
      [isArray |-> TRUE, items |-> <<ShortKey, NumberKey>>],
      [isArray |-> TRUE, items |-> <<GoodKey(1)>>],
      [isArray |-> TRUE, items |-> <<DottedKey, GoodKey(2), ForeignKey, GoodKey(1)>>],
      [isArray |-> TRUE,
       items |-> <<GoodKey(1), GoodKey(2), ShortKey, GoodKey(3), GoodKey(4),
                   GoodKey(5), GoodKey(6)>>] }

\* values of the prompt field: absent, "", a number, a text
PromptValues ==
    { [type |-> "undefined", text |-> ""],
      [type |-> "string", text |-> ""],
      [type |-> "number", text |-> "42"],
      [type |-> "string", text |-> "ami valo achi"] }

\* request bodies: not JSON, the JSON value null, a JSON number, objects
Bodies ==
    { [kind |-> "unparsable"], [kind |-> "null"], [kind |-> "scalar"] }
    \cup { [kind |-> "object", prompt |-> p, apiKeys |-> a] :
               p \in PromptValues, a \in ApiKeysValues }

Requests ==
    { [method |-> "OPTIONS", body |-> [kind |-> "unparsable"]] }
    \cup { [method |-> "POST", body |-> b] : b \in Bodies }

\* every choice of Gemini slots that are set, the slots all set to "", and
\* the gateway key set or not
Environments ==
    { [slots |-> sl, lovable |-> lv] :
          sl \in [1..EnvSlots -> {"undefined", "key"}] \cup {[n \in 1..EnvSlots |-> ""]},
          lv \in {"undefined", "key"} }

\* what fetch and response.json() can give callGeminiWithRetry.  A body
\* holds an error object (code # 0) or candidates, as the API answers.
GeminiReplies ==
    { [thrown |-> TRUE, status |-> 0, code |-> 0, message |-> "", text |-> ""],
      [thrown |-> FALSE, status |-> 429, code |-> 429, message |-> "quota", text |-> ""],
      [thrown |-> FALSE, status |-> 503, code |-> 429, message |-> "quota", text |-> ""],
      [thrown |-> FALSE, status |-> 400, code |-> 400, message |-> "API key not valid", text |-> ""],
      [thrown |-> FALSE, status |-> 500, code |-> 0, message |-> "", text |-> ""],
      [thrown |-> FALSE, status |-> 200, code |-> 0, message |-> "", text |-> ""],
      [thrown |-> FALSE, status |-> 200, code |-> 0, message |-> "", text |-> "gemini text"] }

\* what the gateway can give callLovableAI
LovableReplies ==
    { [thrown |-> TRUE, status |-> 0, text |-> ""],
      [thrown |-> FALSE, status |-> 402, text |-> ""],
      [thrown |-> FALSE, status |-> 200, text |-> ""],
      [thrown |-> FALSE, status |-> 200, text |-> "lovable text"] }

\* Response.ok
ok(status) == status \in 200..299

\* Boolean(k) on a slot's value
slotSet(v) == v \notin {"undefined", ""}

getEnvKeys(e) ==
    LET slotValues == [n \in 1..EnvSlots |-> [set |-> slotSet(e.slots[n]), key |-> EnvKey(n)]]
        kept == SelectSeq(slotValues, LAMBDA v : v.set)
    IN  [n \in 1..Len(kept) |-> kept[n].key]

\* typeof k === 'string' && /^AIza[0-9A-Za-z-_]{20,}$/.test(k)
keyPattern(k) ==
    /\ k.type = "string"
    /\ k.prefix = "AIza"
    /\ k.tailLen >= KeyTailMin
    /\ k.tailClean

slice(seq, n) == SubSeq(seq, 1, IF Len(seq) < n THEN Len(seq) ELSE n)

providedKeys(apiKeys) ==
    IF apiKeys.isArray THEN slice(SelectSeq(apiKeys.items, keyPattern), KeyLimit) ELSE <<>>

chooseKeys(apiKeys, e) ==
    IF Len(providedKeys(apiKeys)) # 0 THEN providedKeys(apiKeys) ELSE getEnvKeys(e)

\* await req.json() and the destructuring throw
bodyThrows(body) == body.kind \in {"unparsable", "null"}

bodyError(body) == IF body.kind = "unparsable" THEN "SyntaxError" ELSE "TypeError"

\* the destructured prompt
promptOf(body) ==
    IF body.kind = "object" THEN body.prompt ELSE [type |-> "undefined", text |-> ""]

apiKeysOf(body) ==
    IF body.kind = "object" THEN body.apiKeys ELSE [isArray |-> FALSE, items |-> <<>>]

truthy(v) ==
    IF v.type = "undefined" THEN FALSE
    ELSE IF v.type = "string" THEN v.text # ""
    ELSE v.text \notin {"0", "NaN"}

\* !prompt || typeof prompt !== 'string'
promptRejected(v) == ~truthy(v) \/ v.type # "string"

optionsResponse == [status |-> 200, error |-> "", details |-> "", text |-> ""]

promptRequired == [status |-> 400, error |-> "Prompt is required", details |-> "", text |-> ""]

textResponse(t) == [status |-> 200, error |-> "", details |-> "", text |-> t]

\* bug variant: the status is left at its default
errorResponseDefaultStatus(message) ==
    [status |-> 200, error |-> message,
     details |-> "Please check if API keys are configured correctly", text |-> ""]

errorResponse(message) ==
    [status |-> 500, error |-> message,
     details |-> "Please check if API keys are configured correctly", text |-> ""]

\* the error one attempt records, "" when the attempt returns the text
geminiError(reply) ==
    IF reply.thrown THEN "fetch failed"
    ELSE IF reply.status = 429 \/ reply.code = 429 THEN "Rate limit exceeded"
    ELSE IF ~ok(reply.status)
         THEN (IF reply.message # "" THEN reply.message ELSE "API request failed")
    ELSE IF reply.text # "" THEN ""
    ELSE "Invalid response format"

\* the error callLovableAI throws after its fetch, "" when it returns the text
lovableError(reply) ==
    IF reply.thrown THEN "fetch failed"
    ELSE IF ~ok(reply.status) THEN "AI gateway error"
    ELSE IF reply.text = "" THEN "No text generated"
    ELSE ""

\* bug variant: the index is not advanced
nextIdxStuck(at, n) == at

\* idx = (idx + 1) % keys.length
nextIdx(at, n) == (at + 1) % n

InitEdge ==
    /\ ConvIdle
    /\ DebounceInit
    /\ FirstPass
    /\ UiInit
    /\ req \in Requests
    /\ env \in Environments
    /\ hpc = "start"
    /\ keys = <<>>
    /\ attempt = 0
    /\ idx = 0
    /\ lastError = "null"
    /\ attemptError = ""
    /\ fetches = <<>>
    /\ called = <<>>
    /\ primary = "idle"
    /\ primaryError = ""
    /\ generatedText = ""
    /\ response = [status |-> 0, error |-> "", details |-> "", text |-> ""]

\* the handler up to the primary call: OPTIONS, the body, the prompt, the keys
HandleRequest ==
    /\ hpc = "start"
    /\ IF req.method = "OPTIONS"
       THEN /\ response' = optionsResponse
            /\ hpc' = "done"
            /\ UNCHANGED keys
       ELSE IF bodyThrows(req.body)
       THEN /\ response' = errorResponse(bodyError(req.body))
            /\ hpc' = "done"
            /\ UNCHANGED keys
       ELSE IF promptRejected(promptOf(req.body))
       THEN /\ response' = promptRequired
            /\ hpc' = "done"
            /\ UNCHANGED keys
       ELSE /\ keys' = chooseKeys(apiKeysOf(req.body), env)
            /\ hpc' = "primary"
            /\ UNCHANGED response
    /\ UNCHANGED <<req, env, attempt, idx, lastError, attemptError, fetches, called,
                   primary, primaryError, generatedText>>
    /\ UNCHANGED <<convVars, debVars, idemVars, uiVars>>

\* callGeminiWithRetry is called: the empty-list throw, the loop's variables
EnterGemini ==
    /\ hpc = "primary"
    /\ called' = Append(called, "callGeminiWithRetry")
    /\ IF Len(keys) = 0
       THEN /\ primary' = "threw"
            /\ primaryError' = "No API keys configured"
            /\ hpc' = "fallback"
       ELSE /\ primary' = "running"
            /\ hpc' = "gemini"
            /\ UNCHANGED primaryError
    /\ lastError' = "null"
    /\ idx' = 0
    /\ attempt' = 0
    /\ UNCHANGED <<req, env, keys, attemptError, fetches, generatedText, response>>
    /\ UNCHANGED <<convVars, debVars, idemVars, uiVars>>

\* one iteration of the loop: the fetch with the next key and its reply
GeminiAttempt ==
    /\ hpc = "gemini"
    /\ attempt < Len(keys)
    /\ fetches' = Append(fetches, [provider |-> "gemini", key |-> keys[idx + 1]])
    /\ idx' = nextIdx(idx, Len(keys))
    /\ \E reply \in GeminiReplies :
          /\ attemptError' = geminiError(reply)
          /\ IF geminiError(reply) = ""
             THEN /\ primary' = "returned"
                  /\ generatedText' = reply.text
                  /\ response' = textResponse(reply.text)
                  /\ hpc' = "done"
                  /\ UNCHANGED <<lastError, attempt>>
             ELSE /\ lastError' = geminiError(reply)
                  /\ attempt' = attempt + 1
                  /\ UNCHANGED <<primary, generatedText, response, hpc>>
    /\ UNCHANGED <<req, env, keys, called, primaryError>>
    /\ UNCHANGED <<convVars, debVars, idemVars, uiVars>>

\* the loop ends without a text: throw lastError, caught by the handler
GeminiExhausted ==
    /\ hpc = "gemini"
    /\ attempt >= Len(keys)
    /\ primaryError' = (IF lastError # "null" THEN lastError ELSE "All API keys exhausted")
    /\ primary' = "threw"
    /\ hpc' = "fallback"
    /\ UNCHANGED <<req, env, keys, attempt, idx, lastError, attemptError, fetches, called,
                   generatedText, response>>
    /\ UNCHANGED <<convVars, debVars, idemVars, uiVars>>

\* callLovableAI and the handler's answer
CallLovable ==
    /\ hpc = "fallback"
    /\ called' = Append(called, "callLovableAI")
    /\ hpc' = "done"
    /\ IF ~slotSet(env.lovable)
       THEN /\ response' = errorResponse("LOVABLE_API_KEY is not configured")
            /\ UNCHANGED <<fetches, generatedText>>
       ELSE /\ fetches' = Append(fetches, [provider |-> "lovable", key |-> EnvKey(0)])
            /\ \E reply \in LovableReplies :
                  IF lovableError(reply) = ""
                  THEN /\ generatedText' = reply.text
                       /\ response' = textResponse(reply.text)
                  ELSE /\ response' = errorResponse(lovableError(reply))
                       /\ UNCHANGED generatedText
    /\ UNCHANGED <<req, env, keys, attempt, idx, lastError, attemptError, primary,
                   primaryError>>
    /\ UNCHANGED <<convVars, debVars, idemVars, uiVars>>

NextEdge ==
    \/ HandleRequest
    \/ EnterGemini
    \/ GeminiAttempt
    \/ GeminiExhausted
    \/ CallLovable

EdgeSpec == InitEdge /\ [][NextEdge]_vars

(***************************************************************************)
(* The editor page (src/src/pages/Index.tsx)                               *)
(*                                                                         *)
(* One action is one event handler or one continuation after an await,     *)
(* together with the effect that React runs when the handler changed       *)
(* banglishText.  The edge function's answer for a word is its             *)
(* transliteration followed by a line feed, an answer without text, or an  *)
(* error.  The page passes handleKeyDown to the TextEditor component.      *)
(***************************************************************************)
\* \s over the characters of the model
IsSpace(c) == c \in {" ", "u000A", "u0009"}

RECURSIVE trimStart(_)
trimStart(s) ==
    IF s # <<>> /\ IsSpace(Head(s)) THEN trimStart(Tail(s)) ELSE s

RECURSIVE trimEnd(_)
trimEnd(s) ==
    IF s # <<>> /\ IsSpace(s[Len(s)]) THEN trimEnd(SubSeq(s, 1, Len(s) - 1)) ELSE s

trim(s) == trimEnd(trimStart(s))

\* !text.trim()
isBlank(s) == trim(s) = <<>>

\* text.match(/([^\s\n]+)|(\s+|\n)/g) || []: the maximal runs of
\* non-whitespace and of whitespace, in order
RECURSIVE MatchRuns(_, _, _)
MatchRuns(s, k, cur) ==
    IF k > Len(s) THEN (IF cur = <<>> THEN <<>> ELSE <<cur>>)
    ELSE IF cur = <<>> \/ IsSpace(s[k]) = IsSpace(cur[1])
         THEN MatchRuns(s, k + 1, Append(cur, s[k]))
    ELSE <<cur>> \o MatchRuns(s, k + 1, <<s[k]>>)

splitByWordKeepFormat(s) == MatchRuns(s, 1, <<>>)

\* convertedTokens.join("")
RECURSIVE joinTokens(_)
joinTokens(ts) == IF ts = <<>> THEN <<>> ELSE Head(ts) \o joinTokens(Tail(ts))

\* index of the first word token at or after from, Len + 1 if there is none
RECURSIVE nextWord(_, _)
nextWord(toks, from) ==
    IF from > Len(toks) THEN Len(toks) + 1
    ELSE IF isBlank(toks[from]) THEN nextWord(toks, from + 1)
    ELSE from

\* what supabase.functions.invoke can give for the word w
InvokeReplies(w) ==
    { [error |-> TRUE, text |-> <<>>],
      [error |-> FALSE, text |-> <<>>],
      [error |-> FALSE, text |-> convertOneWord(w) \o <<"u000A">>] }

\* data?.text ? data.text.trim() : token
convertedToken(reply, token) ==
    IF reply.text # <<>> THEN trim(reply.text) ELSE token

\* performConversion up to its first await
performConversion(textToConvert) ==
    IF isBlank(textToConvert)
    THEN /\ bengaliText' = <<>>
         /\ shownBy' = 0
         /\ UNCHANGED <<isConverting, inflight, launched>>
    ELSE LET toks == splitByWordKeepFormat(textToConvert)
             at == nextWord(toks, 1)
         IN  /\ isConverting' = TRUE
             /\ launched' = Append(launched, textToConvert)
             /\ inflight' = inflight \cup
                                {[id |-> Len(launched) + 1, kind |-> "text",
                                  text |-> textToConvert, k |-> at,
                                  acc |-> SubSeq(toks, 1, at - 1)]}
             /\ UNCHANGED <<bengaliText, shownBy>>

\* the timer the debounce effect leaves behind for the new text
debounceEffect(newText) ==
    IF isBlank(newText) THEN [pending |-> FALSE, text |-> <<>>]
    ELSE [pending |-> TRUE, text |-> newText]

\* typing, pasting or opening a file: the text changes, the effect runs
setBanglishText ==
    /\ edits < MaxEdits
    /\ \E val \in EditorTexts \ {banglishText} :
          /\ banglishText' = val
          /\ debounceTimer' = debounceEffect(val)
          /\ IF isBlank(val)
             THEN bengaliText' = <<>> /\ shownBy' = 0
             ELSE UNCHANGED <<bengaliText, shownBy>>
    /\ edits' = edits + 1
    /\ UNCHANGED <<bengaliTokens, isConverting, inflight, launched, failed>>
    /\ UNCHANGED <<convVars, debVars, edgeVars, idemVars>>

\* the New button
handleNew ==
    /\ banglishText' = <<>>
    /\ bengaliText' = <<>>
    /\ shownBy' = 0
    /\ debounceTimer' = debounceEffect(<<>>)
    /\ UNCHANGED <<bengaliTokens, isConverting, inflight, launched, failed, edits>>
    /\ UNCHANGED <<convVars, debVars, edgeVars, idemVars>>

\* the debounce timer fires
debounceFires ==
    /\ debounceTimer.pending
    /\ Len(launched) < MaxConversions
    /\ debounceTimer' = [pending |-> FALSE, text |-> <<>>]
    /\ performConversion(debounceTimer.text)
    /\ UNCHANGED <<banglishText, bengaliTokens, failed, edits>>
    /\ UNCHANGED <<convVars, debVars, edgeVars, idemVars>>

\* the space key: handleKeyDown with the text before the space, then the
\* change that appends the space and the effect for the new text
handleKeyDown ==
    /\ edits < MaxEdits
    /\ Len(launched) < MaxConversions
    /\ performConversion(banglishText)
    /\ banglishText' = Append(banglishText, " ")
    /\ debounceTimer' = debounceEffect(Append(banglishText, " "))
    /\ edits' = edits + 1
    /\ UNCHANGED <<bengaliTokens, failed>>
    /\ UNCHANGED <<convVars, debVars, edgeVars, idemVars>>

\* the Convert button, enabled while not converting and the text is not blank
handleConvert ==
    /\ ~isConverting
    /\ ~isBlank(banglishText)
    /\ Len(launched) < MaxConversions
    /\ performConversion(banglishText)
    /\ UNCHANGED <<banglishText, bengaliTokens, debounceTimer, failed, edits>>
    /\ UNCHANGED <<convVars, debVars, edgeVars, idemVars>>

\* an awaited invoke settles: performConversion runs on to its next await
\* or to its end
invokeSettles ==
    /\ \E c \in inflight :
          /\ c.kind = "text"
          /\ LET toks == splitByWordKeepFormat(c.text)
             IN  \E reply \in InvokeReplies(toks[c.k]) :
                    IF reply.error
                    THEN /\ inflight' = inflight \ {c}
                         /\ isConverting' = FALSE
                         /\ failed' = TRUE
                         /\ UNCHANGED <<bengaliText, shownBy>>
                    ELSE LET at == nextWord(toks, c.k + 1)
                             acc == c.acc \o <<convertedToken(reply, toks[c.k])>>
                                          \o SubSeq(toks, c.k + 1, at - 1)
                         IN  IF at <= Len(toks)
                             THEN /\ inflight' = (inflight \ {c}) \cup
                                                     {[c EXCEPT !.k = at, !.acc = acc]}
                                  /\ UNCHANGED <<bengaliText, shownBy, isConverting, failed>>
                             ELSE /\ inflight' = inflight \ {c}
                                  /\ bengaliText' = joinTokens(acc)
                                  /\ shownBy' = c.id
                                  /\ isConverting' = FALSE
                                  /\ UNCHANGED failed
    /\ UNCHANGED <<banglishText, bengaliTokens, debounceTimer, launched, edits>>
    /\ UNCHANGED <<convVars, debVars, edgeVars, idemVars>>

NextPage ==
    \/ setBanglishText
    \/ handleNew
    \/ debounceFires
    \/ handleKeyDown
    \/ handleConvert
    \/ invokeSettles

InitPage == ConvIdle /\ DebounceInit /\ EdgeIdle /\ FirstPass /\ UiInit

PageSpec == InitPage /\ [][NextPage]_vars

(***************************************************************************)
(* The token-based editor (src/unnamed/part_001, first component)          *)
(*                                                                         *)
(* The same state as the page, with bengaliTokens in place of bengaliText  *)
(* and no debounce: a word is converted on space or Enter, all words by    *)
(* the Convert button.  An array written past its end grows, the skipped   *)
(* entries are empty.                                                      *)
(***************************************************************************)
tokenizeWithFormat(s) == MatchRuns(s, 1, <<>>)

\* the effect on banglishText: pad with "" or pop to the token count
resizeTokens(prev, n) ==
    [j \in 1..n |-> IF j <= Len(prev) THEN prev[j] ELSE <<>>]

\* next[lastWordIndex] = value on a copy of prev (at is 1-based here)
assignToken(prev, at, value) ==
    [j \in 1..(IF Len(prev) < at THEN at ELSE Len(prev)) |->
        IF j = at THEN value
        ELSE IF j <= Len(prev) THEN prev[j]
        ELSE <<>>]

\* the last token that is a word, 0 if there is none
RECURSIVE lastWordIndex(_, _)
lastWordIndex(toks, from) ==
    IF from = 0 THEN 0
    ELSE IF ~isBlank(toks[from]) THEN from
    ELSE lastWordIndex(toks, from - 1)

\* the keys handleKeyDown reacts to, as the character they type
ConvertKeys == {" ", "u000A"}

\* onChange of the text area, then the effect
handleInputChange ==
    /\ edits < MaxEdits
    /\ \E val \in EditorTexts \ {banglishText} :
          /\ banglishText' = val
          /\ bengaliTokens' = resizeTokens(bengaliTokens, Len(tokenizeWithFormat(val)))
    /\ edits' = edits + 1
    /\ UNCHANGED <<bengaliText, isConverting, debounceTimer, inflight, launched, shownBy,
                   failed>>
    /\ UNCHANGED <<convVars, debVars, edgeVars, idemVars>>

\* the New button of the token-based editor
handleNewTokens ==
    /\ banglishText' = <<>>
    /\ bengaliTokens' = <<>>
    /\ UNCHANGED <<bengaliText, isConverting, debounceTimer, inflight, launched, shownBy,
                   failed, edits>>
    /\ UNCHANGED <<convVars, debVars, edgeVars, idemVars>>

\* space or Enter: handleKeyDown with the text before the key, up to its
\* await, then the change that appends the character and the effect
handleKeyDownWord ==
    /\ edits < MaxEdits
    /\ Len(launched) < MaxConversions
    /\ \E key \in ConvertKeys :
          LET toks == tokenizeWithFormat(banglishText)
              at == lastWordIndex(toks, Len(toks))
              val == Append(banglishText, key)
          IN  /\ IF at = 0
                 THEN UNCHANGED <<isConverting, inflight, launched>>
                 ELSE /\ isConverting' = TRUE
                      /\ launched' = Append(launched, banglishText)
                      /\ inflight' = inflight \cup
                                         {[id |-> Len(launched) + 1, kind |-> "word",
                                           text |-> banglishText, k |-> at,
                                           acc |-> <<>>]}
              /\ banglishText' = val
              /\ bengaliTokens' = resizeTokens(bengaliTokens, Len(tokenizeWithFormat(val)))
    /\ edits' = edits + 1
    /\ UNCHANGED <<bengaliText, debounceTimer, shownBy, failed>>
    /\ UNCHANGED <<convVars, debVars, edgeVars, idemVars>>

\* the single-word invoke settles
wordInvokeSettles ==
    /\ \E c \in inflight :
          /\ c.kind = "word"
          /\ LET toks == tokenizeWithFormat(c.text)
             IN  \E reply \in InvokeReplies(toks[c.k]) :
                    /\ inflight' = inflight \ {c}
                    /\ isConverting' = FALSE
                    /\ IF reply.error
                       THEN /\ failed' = TRUE
                            /\ UNCHANGED bengaliTokens
                       ELSE /\ bengaliTokens' =
                                   assignToken(bengaliTokens, c.k,
                                               convertedToken(reply, toks[c.k]))
                            /\ UNCHANGED failed
    /\ UNCHANGED <<banglishText, bengaliText, debounceTimer, launched, shownBy, edits>>
    /\ UNCHANGED <<convVars, debVars, edgeVars, idemVars>>

\* the Convert button, up to the first await
handleConvertBatch ==
    /\ ~isConverting
    /\ ~isBlank(banglishText)
    /\ Len(launched) < MaxConversions
    /\ LET toks == tokenizeWithFormat(banglishText)
           at == nextWord(toks, 1)
       IN  /\ isConverting' = TRUE
           /\ launched' = Append(launched, banglishText)
           /\ inflight' = inflight \cup
                              {[id |-> Len(launched) + 1, kind |-> "batch",
                                text |-> banglishText, k |-> at,
                                acc |-> SubSeq(toks, 1, at - 1)]}
    /\ UNCHANGED <<banglishText, bengaliText, bengaliTokens, debounceTimer, shownBy, failed,
                   edits>>
    /\ UNCHANGED <<convVars, debVars, edgeVars, idemVars>>

\* an invoke of the batch settles: on to the next await or to the end
batchInvokeSettles ==
    /\ \E c \in inflight :
          /\ c.kind = "batch"
          /\ LET toks == tokenizeWithFormat(c.text)
             IN  \E reply \in InvokeReplies(toks[c.k]) :
                    LET at == nextWord(toks, c.k + 1)
                        piece == IF reply.error THEN toks[c.k]
                                 ELSE convertedToken(reply, toks[c.k])
                        converted == c.acc \o <<piece>> \o SubSeq(toks, c.k + 1, at - 1)
                    IN  IF at <= Len(toks)
                        THEN /\ inflight' = (inflight \ {c}) \cup
                                                {[c EXCEPT !.k = at, !.acc = converted]}
                             /\ UNCHANGED <<bengaliTokens, isConverting>>
                        ELSE /\ inflight' = inflight \ {c}
                             /\ bengaliTokens' = converted
                             /\ isConverting' = FALSE
    /\ UNCHANGED <<banglishText, bengaliText, debounceTimer, launched, shownBy, failed,
                   edits>>
    /\ UNCHANGED <<convVars, debVars, edgeVars, idemVars>>

NextTokens ==
    \/ handleInputChange
    \/ handleNewTokens
    \/ handleKeyDownWord
    \/ wordInvokeSettles
    \/ handleConvertBatch
    \/ batchInvokeSettles

InitTokens == ConvIdle /\ DebounceInit /\ EdgeIdle /\ FirstPass /\ UiInit

TokenSpec == InitTokens /\ [][NextTokens]_vars

(***************************************************************************)
(* Properties                                                              *)
(***************************************************************************)
\* the words whose map callback has returned
Mapped == 1..Len(convertedWords)

\* key occurs inside w and w is longer than key
ProperSubstring(key, w) ==
    /\ Len(key) < Len(w)
    /\ \E s \in 0..(Len(w) - Len(key)) : SubSeq(w, s + 1, s + Len(key)) = key

IsDictionaryWord(w) == toLowerCase(w) \in DOMAIN commonWords

ContainsDictionaryKey(w) ==
    \E key \in DOMAIN commonWords : ProperSubstring(key, toLowerCase(w))

UpperOf(c) == CHOOSE u \in DOMAIN LowerCase : LowerCase[u] = c

\* the upper/lower-case variants of a dictionary key
CaseVariants(key) ==
    {[k \in 1..Len(key) |-> IF k \in mask THEN UpperOf(key[k]) ELSE key[k]] :
        mask \in SUBSET (1..Len(key))}

\* every variant of every key, taken as a one-word text, converts to the
\* key's entry
EveryKeyVariantHits ==
    \A key \in DOMAIN commonWords :
        \A v \in CaseVariants(key) : convertBanglishToBengali(v) = commonWords[key]

\* C1: a whole word that is a dictionary key in any upper/lower-case variant
\* is emitted as the dictionary's spelling of the lower-cased key, and
\* convertWord is never running on such a word.
C1_DictionaryWholeWord ==
    /\ EveryKeyVariantHits
    /\ \A k \in Mapped :
          IsDictionaryWord(words[k]) =>
              convertedWords[k] = commonWords[toLowerCase(words[k])]
    /\ pc = "scan" => ~IsDictionaryWord(word)

C1_Witness ==
    /\ pc = "done"
    /\ Len(words) > 1
    /\ \E k \in Mapped :
          /\ IsDictionaryWord(words[k])
          /\ words[k] # toLowerCase(words[k])
          /\ convertedWords[k] # convertWord(words[k])

\* C2: a word that contains a dictionary key as a proper substring (and is
\* not itself a dictionary key, which C1 covers) is rendered by the
\* character engine: its output is convertWord(word).
C2_SubstringNeverSubstituted ==
    \A k \in Mapped :
        (ContainsDictionaryKey(words[k]) /\ ~IsDictionaryWord(words[k])) =>
            convertedWords[k] = convertWord(words[k])

\* keys of a table that are n characters long
KeysOfLength(table, n) == {key \in DOMAIN table : Len(key) = n}

\* the n characters of w at scan position p, when there are that many
Ahead(w, p, n) == IF p + n <= Len(w) THEN SubSeq(w, p + 1, p + n) ELSE <<>>

\* what a step taken at a consonant key must do, longest key first
C3_Step ==
    pc = "scan" =>
        LET three == Ahead(word, i, 3)
            two   == Ahead(word, i, 2)
            one   == Ahead(word, i, 1)
        IN  IF three \in KeysOfLength(consonants, 3)
            THEN i' = i + 3 /\ result' = result \o consonants[three]
            ELSE IF two \in KeysOfLength(consonants, 2)
            THEN i' = i + 2 /\ result' = result \o consonants[two]
            ELSE one \in KeysOfLength(consonants, 1)
                     => i' = i + 1 /\ result' = result \o consonants[one]

\* C3: at a scan position whose next three characters are a 3-character
\* consonant key the loop appends that key's glyph and advances 3; failing
\* that, where the next two characters are a consonant key it appends that
\* glyph and advances 2 (the vowel table is not consulted); failing both,
\* a single consonant key appends its glyph and advances 1.
C3_LongestMatch == [][C3_Step]_vars

\* the cluster "chh" ends a word it does not start, and came out as one glyph
C3_Witness ==
    /\ pc = "scan"
    /\ i = Len(word)
    /\ Len(word) > 3
    /\ SubSeq(word, Len(word) - 2, Len(word)) = <<"c", "h", "h">>
    /\ result # <<>>
    /\ <<result[Len(result)]>> = consonants[<<"c", "h", "h">>]
    /\ Len(result) = Len(word) - 2

HasNoKar(w) == \A k \in 1..Len(w) : w[k] \notin kars

NoAdjacentKars(s) ==
    \A j \in 1..(Len(s) - 1) : ~(s[j] \in kars /\ s[j + 1] \in kars)

\* C4: for a word that starts with a consonant and is typed without Bengali
\* diacritics, the output of convertWord never has two adjacent glyphs that
\* are both members of the kar set.
C4_NoStackedDiacritics ==
    (pc = "scan" /\ HasNoKar(word) /\ <<word[1]>> \in DOMAIN consonants) =>
        NoAdjacentKars(result)

BeginsWithVowelPattern(w) ==
    \E key \in DOMAIN vowels : Len(key) <= Len(w) /\ SubSeq(w, 1, Len(key)) = key

IndependentGlyphs == {independentVowels[key] : key \in DOMAIN independentVowels}

DependentGlyphs == {vowels[key] : key \in DOMAIN vowels}

FirstIsIndependent(s) ==
    s # <<>> => (<<s[1]>> \in IndependentGlyphs /\ <<s[1]>> \notin DependentGlyphs)

\* C5: for a non-dictionary word whose first characters are a vowel-table
\* pattern, the first glyph convertWord emits is a value of the
\* independent-vowel table and not a dependent diacritic.
C5_InitialVowelIndependent ==
    /\ (pc = "scan" /\ BeginsWithVowelPattern(word)) => FirstIsIndependent(result)
    /\ \A k \in Mapped :
          (~IsDictionaryWord(words[k]) /\ BeginsWithVowelPattern(words[k])) =>
              (convertedWords[k] # <<>> /\ FirstIsIndependent(convertedWords[k]))

\* a word that starts with a 2-character vowel pattern that has no entry of
\* its own in the independent-vowel table, followed by more
C5_Witness ==
    /\ pc = "done"
    /\ \E k \in Mapped :
          /\ Len(words[k]) > 2
          /\ SubSeq(words[k], 1, 2) \in DOMAIN vowels \ DOMAIN independentVowels
          /\ Len(convertedWords[k]) > 1
          /\ FirstIsIndependent(convertedWords[k])

IsDigit(c) == <<c>> \in DOMAIN numbers

IsNumeralGlyph(c) == <<c>> \in {numbers[d] : d \in DOMAIN numbers}

\* the numeral glyphs of the digits of s, in order
NumeralsOf(s) ==
    LET ds == SelectSeq(s, IsDigit)
    IN  [k \in 1..Len(ds) |-> numbers[<<ds[k]>>][1]]

HasNoNumeralGlyph(w) == \A k \in 1..Len(w) : ~IsNumeralGlyph(w[k])

\* C6: in a non-dictionary word (typed without Bengali numerals), after every
\* iteration the numeral glyphs in the output are exactly the numeral-table
\* glyphs of the digits scanned so far, one per digit and in the same order;
\* and whatever has been scanned and emitted so far, each of the digits 0-9
\* met next is rendered as its numeral glyph in one iteration that advances 1.
C6_DigitByDigit ==
    /\ (pc = "scan" /\ HasNoNumeralGlyph(word)) =>
          SelectSeq(result, IsNumeralGlyph) = NumeralsOf(SubSeq(word, 1, i))
    /\ pc = "scan" =>
          \A d \in DOMAIN numbers :
              \* any digit typed next, alone or before the rest of the word
              \A rest \in {<<>>, SubSeq(word, i + 1, Len(word))} :
                  ScanStep(SubSeq(word, 1, i) \o d \o rest, i, result)
                      = [result |-> result \o numbers[d], i |-> i + 1]
    /\ \A k \in Mapped :
          (~IsDictionaryWord(words[k]) /\ HasNoNumeralGlyph(words[k])) =>
              SelectSeq(convertedWords[k], IsNumeralGlyph) = NumeralsOf(words[k])

\* digits at the start, between letters and at the end of one word
C6_Witness ==
    /\ pc = "done"
    /\ \E k \in Mapped :
          /\ Len(words[k]) > 3
          /\ IsDigit(words[k][1])
          /\ ~IsDigit(words[k][2])
          /\ IsDigit(words[k][3])
          /\ <<words[k][2]>> \in DOMAIN consonants \cup DOMAIN vowels
          /\ Len(SelectSeq(convertedWords[k], IsNumeralGlyph)) >= 2

\* pattern keys of the character engine
PatternKeys ==
    DOMAIN consonants \cup DOMAIN vowels \cup DOMAIN independentVowels \cup DOMAIN numbers

\* position p (1-based) of w lies inside an occurrence of a pattern key
InPattern(w, p) ==
    \E key \in PatternKeys :
        \E s \in 1..p :
            /\ p < s + Len(key)
            /\ s + Len(key) - 1 <= Len(w)
            /\ SubSeq(w, s, s + Len(key) - 1) = key

RECURSIVE UnmappedFrom(_, _)
UnmappedFrom(w, p) ==
    IF p > Len(w) THEN <<>>
    ELSE IF InPattern(w, p) THEN UnmappedFrom(w, p + 1)
    ELSE <<w[p]>> \o UnmappedFrom(w, p + 1)

\* the characters of w outside every pattern occurrence, in order
Unmapped(w) == UnmappedFrom(w, 1)

\* code units the tables can emit
TableCodeUnits ==
    UNION {UNION {{t[key][k] : k \in 1..Len(t[key])} : key \in DOMAIN t} :
              t \in {consonants, vowels, independentVowels, numbers}}

\* out holds the unmapped characters of w unchanged, as often and in order
PassthroughKept(w, out) ==
    LET u == Unmapped(w)
        U == {u[k] : k \in 1..Len(u)}
        InU(c) == c \in U
    IN  U \cap TableCodeUnits = {} => SelectSeq(out, InU) = u

\* C7: the characters of a word that are part of no pattern match appear in
\* the word's output unchanged, the same number of times and in the same
\* order (stated for words that are not dictionary keys, and for unmapped
\* characters that no table emits).
C7_PassthroughKept ==
    \A k \in Mapped :
        ~IsDictionaryWord(words[k]) => PassthroughKept(words[k], convertedWords[k])

\* no pattern key occurs in t and no word of t is a dictionary key in any
\* upper/lower-case variant
NoKeyMatches(t) ==
    /\ \A p \in 1..Len(t) : ~InPattern(t, p)
    /\ \A k \in 1..Len(split(t)) : ~IsDictionaryWord(split(t)[k])

\* C8: a text in which no key of any table matches is returned unchanged,
\* and converting the returned text again returns it unchanged.
C8_PassthroughIdempotent ==
    (pc = "done" /\ NoKeyMatches(text)) =>
        (output = text /\ convertBanglishToBengali(output) = output)

\* several unmapped words, among them Bengali and punctuation, between
\* single and double spaces
C8_Witness ==
    /\ pc = "done"
    /\ NoKeyMatches(text)
    /\ Len(words) > 2
    /\ \E k \in 1..Len(words) : words[k] = <<>>
    /\ \E k \in 1..Len(text) : text[k] \in kars
    /\ output = text

Spaces(s) == Len(SelectSeq(s, LAMBDA c : c = " "))

\* C9: the output has as many space-delimited segments (and spaces) as the
\* input, and its k-th segment is the conversion of the k-th input segment
\* taken alone.
C9_WordCountPreserved ==
    pc = "done" =>
        /\ Spaces(output) = Spaces(text)
        /\ Len(split(output)) = Len(split(text))
        /\ \A k \in 1..Len(split(text)) :
              split(output)[k] = convertBanglishToBengali(split(text)[k])

\* what one iteration of the scan loop must do
C10_Step ==
    (pc = "scan" /\ i < Len(word)) =>
        /\ i' - i \in {1, 2, 3}
        /\ i' <= Len(word)
        /\ Len(result') > Len(result)
        /\ SubSeq(result', 1, Len(result)) = result
        /\ pc' = "scan"

\* C10: every iteration of the scan loop appends a non-empty string to the
\* buffer and advances the position by 1, 2 or 3 without passing the end of
\* the word, and the call returns.
C10_Terminates ==
    /\ [][C10_Step]_vars
    /\ [](pc = "scan" => i <= Len(word))
    /\ <>(pc = "done")

\* a word of full length scanned to its end in fewer iterations than
\* characters
C10_Witness ==
    /\ pc = "done"
    /\ Len(word) = MaxLen
    /\ i = Len(word)
    /\ result # <<>>
    /\ Len(result) < Len(word)
    /\ output = result

\* C11: the empty text converts to the empty string without being split,
\* and an empty word converts to the empty string without entering the loop.
C11_EmptyInEmptyOut ==
    /\ (pc = "done" /\ text = <<>>) => (output = <<>> /\ words = <<>>)
    /\ \A k \in Mapped : words[k] = <<>> => convertedWords[k] = <<>>
    /\ pc = "scan" => word # <<>>
    /\ (pc = "done" /\ \A k \in 1..Len(text) : text[k] = " ") => output = text

\* the empty text has been converted
C11_Witness ==
    /\ pc = "done"
    /\ text = <<>>
    /\ output = <<>>

\* C12: one wrapper never has more than one scheduled timer, and the timer
\* that is scheduled is the one of the latest call.
C12_AtMostOnePending ==
    /\ Cardinality(timers) <= 1
    /\ \A t \in timers :
          /\ t.id = timeoutId
          /\ t.id = Len(calls)
          /\ t.banglish = calls[Len(calls)]

\* a second call arrived while the first call's timer was still scheduled
C12_Witness ==
    /\ Len(calls) >= 2
    /\ delivered = <<>>
    /\ Cardinality(timers) = 1

\* every invocation of the callback is for the call that was the latest
\* when the timer fired, with the conversion of that call's argument, and
\* no call is delivered twice
DeliveredLatestOnly ==
    /\ \A k \in 1..Len(delivered) :
          /\ delivered[k].of = delivered[k].at
          /\ delivered[k].bengali = convertBanglishToBengali(calls[delivered[k].of])
    /\ \A j, k \in 1..Len(delivered) : delivered[j].of = delivered[k].of => j = k

\* the last call of a burst has been delivered and nothing is scheduled
BurstDelivered ==
    /\ timers = {}
    /\ delivered # <<>>
    /\ delivered[Len(delivered)].of = Len(calls)

\* C13: the callback is only ever invoked for the latest call, once, with
\* the conversion of its argument, and a scheduled invocation that no
\* further call supersedes is eventually delivered.
C13_LastCallWins ==
    /\ []DeliveredLatestOnly
    /\ (timers # {}) ~> BurstDelivered

\* a burst of two calls with different conversions was delivered once
C13_Witness ==
    /\ Len(delivered) = 1
    /\ timers = {}
    /\ delivered[1].of = 2
    /\ delivered[1].bengali # convertBanglishToBengali(calls[1])

\* C14 (as claimed): a glyph is a member of kars exactly when it is the
\* value of some key of the vowels table, in the tables and for every glyph
\* of the output buffer the membership test can meet.
C14_KarsAreVowelValues ==
    /\ \A g \in kars : <<g>> \in DependentGlyphs
    /\ \A v \in DependentGlyphs : Len(v) = 1 /\ v[1] \in kars
    /\ \A k \in 1..Len(result) : result[k] \in kars <=> <<result[k]>> \in DependentGlyphs

\* C14 (amended): every value of the vowels table is one glyph and a member
\* of kars; kars holds one glyph more, the ri-kar U+09C3, which is the value
\* of no vowels key.
C14_VowelValuesAreKars ==
    /\ \A v \in DependentGlyphs : Len(v) = 1 /\ v[1] \in kars
    /\ {g \in kars : <<g>> \notin DependentGlyphs} = {"u09C3"}
    /\ \A k \in 1..Len(result) : <<result[k]>> \in DependentGlyphs => result[k] \in kars

\* after a typed ri-kar the membership test held and the vowel stayed a
\* letter, in a word that also got a diacritic from the vowels table
C14_Witness ==
    /\ pc = "scan"
    /\ i = Len(word)
    /\ \E j \in 1..(Len(result) - 1) : result[j] = "u09C3" /\ result[j + 1] = "a"
    /\ \E j \in 1..Len(result) : <<result[j]>> \in DependentGlyphs

\* the tables probed with a pattern of n characters
ProbedAt(n) ==
    IF n = 3 THEN {consonants}
    ELSE IF n = 2 THEN {consonants, vowels}
    ELSE {numbers, consonants, vowels}

\* C15: at each pattern length the consonant keys and the vowel keys are
\* disjoint and the numeral keys are disjoint from both, so at every scan
\* position at most one of the tables probed at a length has the pattern.
C15_DeterministicLookup ==
    /\ \A n \in 1..3 : KeysOfLength(consonants, n) \cap KeysOfLength(vowels, n) = {}
    /\ DOMAIN numbers \cap (DOMAIN consonants \cup DOMAIN vowels) = {}
    /\ \A d \in DOMAIN numbers : Len(d) = 1
    /\ (pc = "scan" /\ i < Len(word)) =>
          \A n \in 1..3 :
              Ahead(word, i, n) # <<>> =>
                  Cardinality({t \in ProbedAt(n) : Has(t, Ahead(word, i, n))}) <= 1

\* a scan position after a consonant where a 2-character vowel key matches
\* and its first character is a key as well
C15_Witness ==
    /\ pc = "scan"
    /\ 0 < i
    /\ i < Len(word)
    /\ result # <<>>
    /\ Ahead(word, i, 2) \in DOMAIN vowels
    /\ Ahead(word, i, 1) \in DOMAIN vowels

IsLineBreak(c) == c \in {"u000A", "u0009"}

HasLineBreak(w) == \E k \in 1..Len(w) : IsLineBreak(w[k])

\* C16: words are split at spaces only; a word that holds a line feed or a
\* tab is never dictionary-substituted but converted by convertWord as one
\* word, and its line feeds and tabs are emitted unchanged where scanned.
C16_SplitOnSpaceOnly ==
    /\ pc \in {"map", "scan", "done"} /\ text # <<>> =>
          (Len(words) = Spaces(text) + 1 /\ join(words) = text)
    /\ \A k \in Mapped :
          HasLineBreak(words[k]) =>
              /\ convertedWords[k] = convertWord(words[k])
              /\ SelectSeq(convertedWords[k], IsLineBreak) = SelectSeq(words[k], IsLineBreak)
    /\ pc = "scan" =>
          SelectSeq(result, IsLineBreak) = SelectSeq(SubSeq(word, 1, i), IsLineBreak)

\* two dictionary keys around a line feed, converted as one word and
\* differently from the dictionary's spellings
C16_Witness ==
    /\ pc = "done"
    /\ \E k \in Mapped :
          /\ words[k] = <<"o", "i", "u000A", "o", "i">>
          /\ convertedWords[k] # commonWords[<<"o", "i">>] \o <<"u000A">> \o commonWords[<<"o", "i">>]
          /\ convertedWords[k][2] = "u000A"

\* last code units of the consonant table's values
ConsonantEnds == {consonants[key][Len(consonants[key])] : key \in DOMAIN consonants}

\* C17: in the output of a word typed without Bengali diacritics, every
\* diacritic of the kar set directly follows a glyph of the consonant table.
C17_KarOnlyAfterConsonant ==
    (pc = "scan" /\ HasNoKar(word)) =>
        \A j \in 1..Len(result) :
            result[j] \in kars => (j > 1 /\ result[j - 1] \in ConsonantEnds)

\* the fetches made to Gemini, in order
GeminiFetches == SelectSeq(fetches, LAMBDA f : f.provider = "gemini")

LovableFetches == SelectSeq(fetches, LAMBDA f : f.provider = "lovable")

\* C18: callGeminiWithRetry issues at most one request per key, the n-th
\* request with the n-th key of the list; it returns the text of the first
\* reply that is not a failure and issues nothing after it; when every
\* attempt fails it throws the error of the last attempt; with an empty list
\* it throws 'No API keys configured' and issues no request.
C18_KeyRotation ==
    /\ Len(GeminiFetches) <= Len(keys)
    /\ \A n \in 1..Len(GeminiFetches) : GeminiFetches[n].key = keys[n]
    /\ primary = "running" => Len(GeminiFetches) = attempt
    /\ primary = "returned" =>
          /\ Len(GeminiFetches) = attempt + 1
          /\ attemptError = ""
          /\ generatedText = "gemini text"
    /\ (primary = "threw" /\ Len(keys) >= 1) =>
          /\ Len(GeminiFetches) = Len(keys)
          /\ attemptError # ""
          /\ primaryError = attemptError
    /\ (primary = "threw" /\ Len(keys) = 0) =>
          /\ primaryError = "No API keys configured"
          /\ GeminiFetches = <<>>

\* two keys failed, the third of five gave the text, the last two were not
\* used
C18_Witness ==
    /\ primary = "returned"
    /\ Len(keys) = 5
    /\ attempt = 2
    /\ Len(GeminiFetches) = 3
    /\ GeminiFetches[3].key = keys[3]
    /\ keys[3] # keys[1]

\* C19: callLovableAI is called only after callGeminiWithRetry has thrown,
\* and is called whenever it has; the gateway is not fetched before or while
\* the primary runs; when the primary returns, the answer carries its text;
\* when both fail, the answer has status 500 and an error, no text.
C19_FallbackOrdering ==
    /\ called \in { <<>>, <<"callGeminiWithRetry">>,
                    <<"callGeminiWithRetry", "callLovableAI">> }
    /\ Len(called) = 2 => primary = "threw"
    /\ (hpc = "done" /\ primary = "threw") => Len(called) = 2
    /\ primary \in {"idle", "running", "returned"} => LovableFetches = <<>>
    /\ \A n \in 1..Len(fetches) :
          fetches[n].provider = "lovable" => n = Len(fetches) /\ hpc = "done"
    /\ primary = "returned" =>
          /\ hpc = "done"
          /\ response = textResponse("gemini text")
    /\ (hpc = "done" /\ primary = "threw" /\ generatedText = "") =>
          /\ response.status = 500
          /\ response.error # ""
          /\ response.text = ""
    /\ (hpc = "done" /\ primary = "threw" /\ generatedText # "") =>
          response = textResponse("lovable text")

\* every key failed, then the gateway failed: the answer is the 500
C19_Witness ==
    /\ hpc = "done"
    /\ primary = "threw"
    /\ Len(GeminiFetches) >= 2
    /\ Len(LovableFetches) = 1
    /\ response = errorResponse("AI gateway error")

\* the request carries no usable prompt
PromptMissing ==
    req.body.kind # "object" \/ promptRejected(req.body.prompt)

\* C20: a POST request whose prompt is missing, empty or not a string is
\* answered with status 400 'Prompt is required', an OPTIONS request with an
\* empty success answer, and in both cases no provider is called.
C20_PromptRequired ==
    hpc = "done" =>
        /\ (req.method = "POST" /\ PromptMissing) =>
              /\ response = promptRequired
              /\ called = <<>>
              /\ fetches = <<>>
        /\ req.method = "OPTIONS" =>
              /\ response = optionsResponse
              /\ called = <<>>
              /\ fetches = <<>>

\* C25: applying convertBanglishToBengali to its own output returns that
\* output unchanged.
C25_Idempotent ==
    (pass = 2 /\ pc = "done") => output = first

\* nothing awaits an answer and no debounce timer is scheduled
PageQuiet == inflight = {} /\ ~debounceTimer.pending

\* C22: once every conversion has completed without a failure and nothing is
\* scheduled, the text shown for a non-blank input is the result of the
\* conversion started last, and that conversion was started for the current
\* text.
C22_NoStaleOverwrite ==
    (PageQuiet /\ ~failed /\ ~isBlank(banglishText)) =>
        /\ launched # <<>>
        /\ shownBy = Len(launched)
        /\ launched[Len(launched)] = banglishText

\* C23: whenever the input is empty or whitespace-only and no conversion is
\* in flight, the output is the empty string.
C23_BlankInBlankOut ==
    (inflight = {} /\ isBlank(banglishText)) => bengaliText = <<>>

\* C24: isConverting is true exactly when at least one conversion is in
\* flight.
C24_FlagTracksInflight ==
    isConverting <=> inflight # {}

\* C21: whenever no conversion request is in flight, bengaliTokens has as
\* many entries as tokenizeWithFormat(banglishText).
C21_TokensInSync ==
    inflight = {} => Len(bengaliTokens) = Len(tokenizeWithFormat(banglishText))

=============================================================================
